---- MODULE Spec2Model ----
(***************************************************************************)
(* A model of st1_sqlalchemy/__init__.py: DatabaseServer (one server and   *)
(* its cache database name -> (engine, session maker)), DatabaseManager    *)
(* (servers keyed by host, and the default server) and DatabaseContext     *)
(* (the sessions of one `async with` block).                               *)
(*                                                                         *)
(* SQLAlchemy is the 1.4 series setup.py asks for.  Objects are named by   *)
(* their position in the sequence that records their creation; 0 names no *)
(* object.  A call that raises leaves its exception's type in `outcome`.   *)
(***************************************************************************)
EXTENDS Integers, Sequences, FiniteSets, TLC

VARIABLES
    servers,    \* the DatabaseServer objects constructed so far
    engines,    \* the engines (connection handles) created so far
    manager,    \* the DatabaseManager
    contexts,   \* the DatabaseContext objects constructed so far
    sessions,   \* the sessions instantiated so far
    threads,    \* calls of get_session_maker running on other threads
    first_registered, \* history: the host of the first server ever registered
    outcome     \* the last completed call: what it was given and what it gave

vars == <<servers, engines, manager, contexts, sessions, threads,
         first_registered, outcome>>

----------------------------------------------------------------------------
(* Values *)

\* Python's None, and the mark of an attribute that was never assigned.
None == "None"
Unset == "Unset"

Hosts == {"h1", "h2"}
Databases == {"d1", "d2"}

\* The engine identifiers for which DatabaseServer has a _create_<engine>
\* method, and one for which it has none.
SupportedEngines == {"mssql", "postgres", "async_postgres"}
EngineArgs == SupportedEngines \cup {"oracle"}

\* Bounds of the model.
MaxServers == 2
MaxEngines == 3
MaxArgs == 2
MaxContexts == 1
MaxRefs == 2
MaxSessions == 3
MaxThreads == 2
MaxCloses == 1

\* (mutant) every argument passes the test `if x`
TruthyAlways(x) == TRUE

\* Python truthiness of a str | None argument (`if not x`).
Truthy(x) == x # None /\ x # ""

\* A call's result when it returns and when it raises.
NoCall == [op |-> "none", exc |-> None]

----------------------------------------------------------------------------
(* DatabaseServer *)

\* (mutant) the method is looked up at first use, not at construction
HasCreateMethodLazy(engine) == TRUE

\* getattr(self, f'_create_{engine}') finds a method.
HasCreateMethod(engine) == engine \in SupportedEngines

\* self._create_engine(database): the kind of engine made, or the exception.
\* _create_mssql passes cls= to the classmethod URL.create, which raises
\* TypeError before any engine is made.
CreateEngineKind(engine) ==
    CASE engine = "mssql" -> "TypeError"
      [] engine = "postgres" -> "Engine"
      [] engine = "async_postgres" -> "AsyncEngine"
      [] OTHER -> "AttributeError"

IsException(x) == x \in {"TypeError", "AttributeError", "KeyError", "IndexError"}

\* session_cls of _create.
SessionCls(engineKind) ==
    IF engineKind = "AsyncEngine" THEN "AsyncEngine" ELSE "Session"

\* The pair stored in the cache for engine object e.
CachePair(engs, e) ==
    [engine |-> e,
     session_maker |-> [bind |-> e, class_ |-> SessionCls(engs[e].kind)]]

NoPair == [engine |-> 0, session_maker |-> [bind |-> 0, class_ |-> None]]

\* (mutant) _create starts a new cache that holds the new entry alone
CreateEvicting(srvs, engs, s, database) ==
    LET kind == CreateEngineKind(srvs[s].engine) IN
    IF IsException(kind)
    THEN [exc |-> kind, ret |-> NoPair, servers |-> srvs, engines |-> engs]
    ELSE LET e == Len(engs) + 1
             engs2 == Append(engs, [server |-> s, database |-> database,
                                    kind |-> kind])
             pair == CachePair(engs2, e)
         IN [exc |-> None, ret |-> pair,
             servers |-> [srvs EXCEPT ![s].databases =
                             [d \in {database} |-> pair]],
             engines |-> engs2]

\* _create(database) on server s: a record of the exception (or None), the
\* pair returned and the servers and engines afterwards.
Create(srvs, engs, s, database) ==
    LET kind == CreateEngineKind(srvs[s].engine) IN
    IF IsException(kind)
    THEN [exc |-> kind, ret |-> NoPair, servers |-> srvs, engines |-> engs]
    ELSE LET e == Len(engs) + 1
             engs2 == Append(engs, [server |-> s, database |-> database,
                                    kind |-> kind])
             pair == CachePair(engs2, e)
             dbs == srvs[s].databases
             dbs2 == [d \in DOMAIN dbs \cup {database} |->
                        IF d = database THEN pair ELSE dbs[d]]
         IN [exc |-> None, ret |-> pair,
             servers |-> [srvs EXCEPT ![s].databases = dbs2],
             engines |-> engs2]

\* (mutant) the cache is never consulted
CacheMissAlways(srvs, s, database) == TRUE

\* `database not in self.__databases`
CacheMiss(srvs, s, database) == database \notin DOMAIN srvs[s].databases

\* _get_or_create(database) on server s.
GetOrCreate(srvs, engs, s, database) ==
    IF CacheMiss(srvs, s, database)
    THEN Create(srvs, engs, s, database)
    ELSE [exc |-> None, ret |-> srvs[s].databases[database],
          servers |-> srvs, engines |-> engs]

\* get_session_maker(database) on server s; ret is the session maker.
GetSessionMaker(srvs, engs, s, database) ==
    LET db == IF ~Truthy(database) THEN srvs[s].default_database ELSE database
        r == GetOrCreate(srvs, engs, s, db)
    IN [exc |-> r.exc, ret |-> r.ret.session_maker,
        servers |-> r.servers, engines |-> r.engines]

\* DatabaseServer(host, ..., engine, default): the exception (or None) and
\* the servers and engines afterwards; the new object is the last of servers.
ServerInit(srvs, engs, host, engine, default) ==
    IF ~HasCreateMethod(engine)
    THEN [exc |-> "AttributeError", servers |-> srvs, engines |-> engs]
    ELSE LET s == Len(srvs) + 1
             srvs2 == Append(srvs, [host |-> host, engine |-> engine,
                                    default_database |-> default,
                                    databases |-> <<>>])
         IN IF Truthy(default)
            THEN LET r == GetOrCreate(srvs2, engs, s, default) IN
                 IF r.exc # None
                 THEN [exc |-> r.exc, servers |-> srvs, engines |-> engs]
                 ELSE [exc |-> None, servers |-> r.servers,
                       engines |-> r.engines]
            ELSE [exc |-> None, servers |-> srvs2, engines |-> engs]

----------------------------------------------------------------------------
(* DatabaseManager *)

RECURSIVE AddAllKeepFirst(_, _, _)
\* (mutant) a host that is already registered keeps its server
AddAllKeepFirst(dict, srvs, db_servers) ==
    IF db_servers = <<>> THEN dict
    ELSE LET s == Head(db_servers)
             h == srvs[s].host
         IN AddAllKeepFirst([k \in DOMAIN dict \cup {h} |->
                                IF k \in DOMAIN dict THEN dict[k] ELSE s],
                            srvs, Tail(db_servers))

RECURSIVE AddAll(_, _, _)
\* The loop of add: each server is stored under its host, in argument order.
AddAll(dict, srvs, db_servers) ==
    IF db_servers = <<>> THEN dict
    ELSE LET s == Head(db_servers)
             h == srvs[s].host
         IN AddAll([k \in DOMAIN dict \cup {h} |-> IF k = h THEN s ELSE dict[k]],
                   srvs, Tail(db_servers))

\* add(*db_servers)
ManagerAdd(mgr, srvs, db_servers) ==
    [mgr EXCEPT !.database_servers = AddAll(@, srvs, db_servers)]

\* DatabaseManager(*db_servers)
ManagerInit(srvs, db_servers) ==
    ManagerAdd([constructed |-> TRUE,
                database_servers |-> <<>>,
                default_server |-> IF Len(db_servers) > 0
                                   THEN srvs[db_servers[1]].host
                                   ELSE Unset],
               srvs, db_servers)

\* self.__database_servers[key]
Lookup(mgr, key) ==
    IF key \in DOMAIN mgr.database_servers
    THEN [exc |-> None, ret |-> mgr.database_servers[key]]
    ELSE [exc |-> "KeyError", ret |-> 0]

\* get(host): the server, or the exception raised.
ManagerGet(mgr, host) ==
    IF ~Truthy(host)
    THEN IF mgr.default_server = Unset
         THEN [exc |-> "AttributeError", ret |-> 0]
         ELSE Lookup(mgr, mgr.default_server)
    ELSE Lookup(mgr, host)

----------------------------------------------------------------------------
(* The calls a program makes *)

DefaultArgs == {None, "d1"}
HostArgs == Hosts \cup {None}
DatabaseArgs == Databases \cup {None}

\* The argument lists of DatabaseManager(...) and add(...).
ServerLists ==
    UNION {[1..n -> 1..Len(servers)] : n \in 0..MaxArgs}

\* The history of registrations after one more call that registers.
FirstRegistered(first, db_servers) ==
    IF first = None /\ db_servers # <<>>
    THEN servers[db_servers[1]].host ELSE first

Init ==
    /\ servers = <<>>
    /\ engines = <<>>
    /\ manager = [constructed |-> FALSE, database_servers |-> <<>>,
                  default_server |-> Unset]
    /\ contexts = <<>>
    /\ sessions = <<>>
    /\ threads = <<>>
    /\ first_registered = None
    /\ outcome = NoCall

\* DatabaseServer(host, username, password, port, engine, default)
NewServer(host, engine, default) ==
    /\ Len(servers) < MaxServers
    /\ LET r == ServerInit(servers, engines, host, engine, default) IN
       /\ Len(r.engines) <= MaxEngines
       /\ servers' = r.servers
       /\ engines' = r.engines
       /\ outcome' = [op |-> "DatabaseServer", exc |-> r.exc, host |-> host,
                      engine |-> engine, default |-> default,
                      ret |-> IF r.exc = None THEN Len(r.servers) ELSE 0]
    /\ UNCHANGED <<manager, contexts, sessions, threads, first_registered>>

\* DatabaseManager(*db_servers)
NewManager(db_servers) ==
    /\ ~manager.constructed
    /\ manager' = ManagerInit(servers, db_servers)
    /\ first_registered' = FirstRegistered(first_registered, db_servers)
    /\ outcome' = [op |-> "DatabaseManager", exc |-> None,
                   db_servers |-> db_servers]
    /\ UNCHANGED <<servers, engines, contexts, sessions, threads>>

\* manager.add(*db_servers)
Add(db_servers) ==
    /\ manager.constructed
    /\ manager' = ManagerAdd(manager, servers, db_servers)
    /\ first_registered' = FirstRegistered(first_registered, db_servers)
    /\ outcome' = [op |-> "add", exc |-> None, db_servers |-> db_servers,
                   before |-> manager]
    /\ UNCHANGED <<servers, engines, contexts, sessions, threads>>

\* manager.get(host)
Get(host) ==
    /\ manager.constructed
    /\ LET r == ManagerGet(manager, host) IN
       outcome' = [op |-> "get", exc |-> r.exc, host |-> host, ret |-> r.ret]
    /\ UNCHANGED <<servers, engines, manager, contexts, sessions, threads,
                   first_registered>>

\* manager.get(host).get_session_maker(database)
CallGetSessionMaker(host, database) ==
    /\ manager.constructed
    /\ LET g == ManagerGet(manager, host) IN
       IF g.exc # None
       THEN /\ outcome' = [op |-> "get_session_maker", exc |-> g.exc,
                           host |-> host, database |-> database,
                           server |-> 0, ret |-> NoPair.session_maker]
            /\ UNCHANGED <<servers, engines>>
       ELSE LET r == GetSessionMaker(servers, engines, g.ret, database) IN
            /\ Len(r.engines) <= MaxEngines
            /\ servers' = r.servers
            /\ engines' = r.engines
            /\ outcome' = [op |-> "get_session_maker", exc |-> r.exc,
                           host |-> host, database |-> database,
                           server |-> g.ret, ret |-> r.ret]
    /\ UNCHANGED <<manager, contexts, sessions, threads, first_registered>>

Next ==
    \/ \E h \in Hosts, e \in EngineArgs, d \in DefaultArgs : NewServer(h, e, d)
    \/ \E l \in ServerLists : NewManager(l)
    \/ \E l \in ServerLists : Add(l)
    \/ \E h \in HostArgs : Get(h)

Spec == Init /\ [][Next]_vars

----------------------------------------------------------------------------
(* DatabaseContext.__init__ *)

\* A database reference (DBR): a tuple of strings, or a bare string.
TupleRef(elems) == [tuple |-> TRUE, elems |-> elems]
StrRef(str) == [tuple |-> FALSE, elems |-> <<str>>]

\* The characters of a string, as iterating over it yields them.
Chars(str) ==
    CASE str = "h1" -> <<"h", "1">>
      [] str = "h2" -> <<"h", "2">>
      [] OTHER -> <<>>

\* The values of the argument `use`: None, a list of references, or one
\* reference passed bare (Iterable[DBR] | DBR).
NoUse == [type |-> "None", items |-> <<>>]
ListUse(refs) == [type |-> "list", items |-> refs]
BareTuple(elems) == [type |-> "tuple", items |-> elems]
BareStr(str) == [type |-> "str", items |-> <<str>>]

\* `not use`
UseIsFalsy(use) ==
    \/ use.type = "None"
    \/ use.type \in {"list", "tuple"} /\ use.items = <<>>
    \/ use.type = "str" /\ Chars(use.items[1]) = <<>>

\* What `for ref in use` yields: the items of a list, the elements of a bare
\* tuple, the characters of a bare string.
Iterate(use) ==
    CASE use.type = "list" -> use.items
      [] use.type = "tuple" -> [i \in 1..Len(use.items) |-> StrRef(use.items[i])]
      [] use.type = "str" ->
            LET cs == Chars(use.items[1]) IN
            [i \in 1..Len(cs) |-> StrRef(cs[i])]
      [] OTHER -> <<>>

\* The host a reference names: assigned only when the reference is a tuple.
RefHost(ref) ==
    IF ref.tuple THEN ref.elems[1] ELSE None

\* The body of the loop for one reference: (host, database), or IndexError
\* when ref[0] is taken of an empty tuple.
ResolveRef(ref) ==
    IF ref.tuple /\ Len(ref.elems) = 0
    THEN [exc |-> "IndexError", host |-> None, database |-> None]
    ELSE [exc |-> None,
          host |-> RefHost(ref),
          database |-> IF ref.tuple /\ Len(ref.elems) = 2
                       THEN ref.elems[2] ELSE None]

\* manager.get(host).get_session_maker(database)
ManagedSessionMaker(mgr, srvs, engs, host, database) ==
    LET g == ManagerGet(mgr, host) IN
    IF g.exc # None
    THEN [exc |-> g.exc, ret |-> NoPair.session_maker,
          servers |-> srvs, engines |-> engs]
    ELSE GetSessionMaker(srvs, engs, g.ret, database)

RECURSIVE ResolveAll(_, _, _, _, _)
\* The loop of __init__ over the references still to resolve, given the
\* session makers collected so far.
ResolveAll(mgr, srvs, engs, refs, makers) ==
    IF refs = <<>>
    THEN [exc |-> None, session_makers |-> makers,
          servers |-> srvs, engines |-> engs]
    ELSE LET t == ResolveRef(Head(refs)) IN
         IF t.exc # None
         THEN [exc |-> t.exc, session_makers |-> makers,
               servers |-> srvs, engines |-> engs]
         ELSE LET r == ManagedSessionMaker(mgr, srvs, engs, t.host, t.database)
              IN IF r.exc # None
                 THEN [exc |-> r.exc, session_makers |-> makers,
                       servers |-> r.servers, engines |-> r.engines]
                 ELSE ResolveAll(mgr, r.servers, r.engines, Tail(refs),
                                 Append(makers, r.ret))

\* DatabaseContext(manager, use): the session makers, or the exception.
ContextInit(mgr, srvs, engs, use) ==
    IF UseIsFalsy(use)
    THEN LET r == ManagedSessionMaker(mgr, srvs, engs, None, None) IN
         [exc |-> r.exc,
          session_makers |-> IF r.exc = None THEN <<r.ret>> ELSE <<>>,
          servers |-> r.servers, engines |-> r.engines]
    ELSE ResolveAll(mgr, srvs, engs, Iterate(use), <<>>)

\* The references and the values of `use` a caller passes.
RefValues ==
    {StrRef(h) : h \in Hosts}
    \cup {TupleRef(<<h>>) : h \in Hosts}
    \cup {TupleRef(<<h, d>>) : h \in Hosts, d \in Databases}
    \cup {TupleRef(<<>>)}

UseValues ==
    {NoUse}
    \cup {ListUse(l) : l \in UNION {[1..n -> RefValues] : n \in 0..MaxRefs}}
    \cup {BareTuple(<<h, d>>) : h \in Hosts, d \in Databases}
    \cup {BareStr(h) : h \in Hosts}

\* manager.db_context(use)
NewContext(use) ==
    /\ manager.constructed
    /\ Len(contexts) < MaxContexts
    /\ LET r == ContextInit(manager, servers, engines, use) IN
       /\ Len(r.engines) <= MaxEngines
       /\ servers' = r.servers
       /\ engines' = r.engines
       /\ contexts' = IF r.exc # None THEN contexts
                      ELSE Append(contexts,
                                  [session_makers |-> r.session_makers,
                                   sessions |-> <<>>,
                                   sessions_is_none |-> TRUE,
                                   closing |-> 0,
                                   status |-> "created",
                                   body |-> None,
                                   use |-> use])
       /\ outcome' = [op |-> "db_context", exc |-> r.exc, use |-> use]
    /\ UNCHANGED <<manager, sessions, threads, first_registered>>

----------------------------------------------------------------------------
(* DatabaseContext.__aenter__ and __aexit__ *)

\* session_maker(): sessionmaker calls class_(bind=..., ...).  Session
\* accepts the arguments; AsyncEngine's constructor does not and raises.
InstantiateExc(maker) ==
    IF maker.class_ = "AsyncEngine" THEN "TypeError" ELSE None

\* Whether close() of an instance of the class is a coroutine function.
CloseIsAsync(class_) == class_ = "AsyncSession"

RECURSIVE InstantiateAll(_, _, _)
\* tuple(session_maker() for session_maker in self.session_makers), for the
\* makers still to call: the sessions instantiated, and the exception that
\* ended the generator early.
InstantiateAll(makers, c, sess) ==
    IF makers = <<>> THEN [exc |-> None, sessions |-> sess]
    ELSE LET m == Head(makers) IN
         IF InstantiateExc(m) # None
         THEN [exc |-> InstantiateExc(m), sessions |-> sess]
         ELSE InstantiateAll(Tail(makers), c,
                  Append(sess, [context |-> c, bind |-> m.bind,
                                class_ |-> m.class_, closes |-> 0,
                                close_attempts |-> 0,
                                released_by |-> None]))

\* The sessions __aenter__ leaves in self.sessions: those it instantiated,
\* or what was there before when the instantiation raised.
SessionsAfterEnter(ctx, exc, new) ==
    IF exc # None THEN ctx
    ELSE [ctx EXCEPT !.sessions = new, !.sessions_is_none = FALSE]

\* What __aenter__ returns: the session when there is one, else the tuple.
EnterResult(new) ==
    IF Len(new) = 1 THEN [single |-> TRUE, sessions |-> <<new[1]>>]
    ELSE [single |-> FALSE, sessions |-> new]

NoResult == [single |-> FALSE, sessions |-> <<>>]

\* (mutant) __aenter__ resolves the references again, against the manager
\* and the caches as they are at entry
EntryMakersResolvedAgain(ctx) ==
    LET r == ContextInit(manager, servers, engines, ctx.use) IN
    IF r.exc = None THEN r.session_makers ELSE ctx.session_makers

\* The session makers __aenter__ calls: self.session_makers.
EntryMakers(ctx) == ctx.session_makers

\* async with ctx: __aenter__().  The calls on one context are made one
\* after another: none while its __aexit__ is suspended.
AEnter(c) ==
    /\ c \in DOMAIN contexts
    /\ contexts[c].status # "entered"
    /\ contexts[c].closing = 0
    /\ LET r == InstantiateAll(EntryMakers(contexts[c]), c, sessions)
           new == [i \in 1..(Len(r.sessions) - Len(sessions)) |->
                     Len(sessions) + i]
       IN /\ Len(r.sessions) <= MaxSessions
          /\ sessions' = r.sessions
          /\ contexts' = [contexts EXCEPT ![c] =
                 [SessionsAfterEnter(@, r.exc, new) EXCEPT
                    !.status = IF r.exc # None THEN "enter_failed"
                               ELSE "entered"]]
          /\ outcome' = [op |-> "__aenter__", exc |-> r.exc, context |-> c,
                         ret |-> IF r.exc # None THEN NoResult
                                 ELSE EnterResult(new)]
    /\ UNCHANGED <<servers, engines, manager, threads, first_registered>>

\* inspect.iscoroutinefunction(session): the argument is the session
\* object, which is no function.
IsCoroutineFunction(session) == FALSE

\* The branch __aexit__ takes for a session.
ReleaseProcedure(session) ==
    IF IsCoroutineFunction(session) THEN "await" ELSE "sync_to_async"

\* One close through the procedure chosen: the exception raised (or None)
\* and whether session.close() ran to completion.  sync_to_async refuses a
\* coroutine function; awaiting the None a synchronous close returns raises
\* after the close has run.
CloseResult(session, procedure, driverFails) ==
    CASE procedure = "sync_to_async" /\ CloseIsAsync(session.class_) ->
            [exc |-> "TypeError", closed |-> FALSE]
      [] driverFails -> [exc |-> "SQLAlchemyError", closed |-> FALSE]
      [] procedure = "await" /\ ~CloseIsAsync(session.class_) ->
            [exc |-> "TypeError", closed |-> TRUE]
      [] OTHER -> [exc |-> None, closed |-> TRUE]

\* `if not self.sessions`
NoSessions(ctx) == ctx.sessions_is_none \/ ctx.sessions = <<>>

\* What __aexit__ does after a close raised: the exception leaves the loop.
AfterFailedClose(ctx) == [ctx EXCEPT !.closing = 0, !.status = "exit_failed"]

\* (mutant) __aexit__ returns True
ExitReturnTrue == "True"

\* What __aexit__ returns when it returns: nothing (None).
ExitReturn == None

\* `async with`: the exception of the body propagates to the caller unless
\* __aexit__ returns a true value.
BodyExceptionPropagates(body, ret) == body = "raise" /\ ~Truthy(ret)

\* __aexit__ is called, at the end of the block's body or by hand, and
\* runs to its first await, or returns when there is no session.  body
\* tells how the body ended.
AExitBegin(c, body) ==
    /\ c \in DOMAIN contexts
    /\ contexts[c].closing = 0
    /\ \A i \in DOMAIN contexts[c].sessions :
          sessions[contexts[c].sessions[i]].close_attempts < MaxCloses
    /\ IF NoSessions(contexts[c])
       THEN /\ contexts' = contexts
            /\ outcome' = [op |-> "__aexit__", exc |-> None, context |-> c,
                           body |-> body, ret |-> ExitReturn]
       ELSE /\ contexts' = [contexts EXCEPT ![c].closing = 1,
                                            ![c].status = "exiting",
                                            ![c].body = body]
            /\ outcome' = [op |-> "body", exc |-> None, context |-> c]
    /\ UNCHANGED <<servers, engines, manager, sessions, threads,
                   first_registered>>

\* (mutant) the loop of __aexit__ runs over the sessions in reverse
NextToCloseReversed(ctx) == ctx.sessions[Len(ctx.sessions) + 1 - ctx.closing]

\* The session whose close __aexit__ is awaiting: the loop runs over
\* self.sessions in order.
NextToClose(ctx) == ctx.sessions[ctx.closing]

\* __aexit__ resumes: the close it awaits ends (driverFails: the driver
\* raised), and the loop goes on to the next session or ends.
AExitClose(c, driverFails) ==
    /\ c \in DOMAIN contexts
    /\ contexts[c].closing > 0
    /\ LET ctx == contexts[c]
           id == NextToClose(ctx)
           proc == ReleaseProcedure(sessions[id])
           r == CloseResult(sessions[id], proc, driverFails)
       IN /\ sessions' = [sessions EXCEPT
                 ![id].close_attempts = @ + 1,
                 ![id].closes = IF r.closed THEN @ + 1 ELSE @,
                 ![id].released_by = proc]
          /\ IF r.exc # None
             THEN /\ contexts' = [contexts EXCEPT ![c] = AfterFailedClose(@)]
                  /\ outcome' = [op |-> "__aexit__", exc |-> r.exc,
                                 context |-> c, body |-> ctx.body,
                                 ret |-> None]
             ELSE IF ctx.closing = Len(ctx.sessions)
             THEN /\ contexts' = [contexts EXCEPT ![c].closing = 0,
                                                  ![c].status = "exited"]
                  /\ outcome' = [op |-> "__aexit__", exc |-> None,
                                 context |-> c, body |-> ctx.body,
                                 ret |-> ExitReturn]
             ELSE /\ contexts' = [contexts EXCEPT ![c].closing = @ + 1]
                  /\ outcome' = [op |-> "close", exc |-> None, context |-> c]
    /\ UNCHANGED <<servers, engines, manager, threads, first_registered>>

\* The task running __aexit__ is cancelled while a close is suspended:
\* CancelledError is raised at the await and leaves the loop.  The close
\* that was awaited goes on in its worker thread (ran: it has completed).
ACancel(c, ran) ==
    /\ c \in DOMAIN contexts
    /\ contexts[c].closing > 0
    /\ LET ctx == contexts[c]
           id == NextToClose(ctx)
       IN /\ sessions' = [sessions EXCEPT
                 ![id].close_attempts = @ + 1,
                 ![id].closes = IF ran THEN @ + 1 ELSE @,
                 ![id].released_by = ReleaseProcedure(sessions[id])]
          /\ contexts' = [contexts EXCEPT ![c].closing = 0,
                                          ![c].status = "cancelled"]
          /\ outcome' = [op |-> "cancel", exc |-> "CancelledError",
                         context |-> c]
    /\ UNCHANGED <<servers, engines, manager, threads, first_registered>>

\* How the body of an `async with` block ends.
BodyEnds == {"normal", "return", "raise"}

\* After DatabaseManager(s1, s2), s1 a server on h1 and s2 a server on h2.
FixtureEngines == {"postgres", "async_postgres"}

InitScope ==
    \E e1 \in FixtureEngines, e2 \in FixtureEngines,
       d1 \in DefaultArgs, d2 \in DefaultArgs :
       LET r1 == ServerInit(<<>>, <<>>, "h1", e1, d1)
           r2 == ServerInit(r1.servers, r1.engines, "h2", e2, d2)
       IN /\ servers = r2.servers
          /\ engines = r2.engines
          /\ manager = ManagerInit(r2.servers, <<1, 2>>)
          /\ contexts = <<>>
          /\ sessions = <<>>
          /\ threads = <<>>
          /\ first_registered = "h1"
          /\ outcome = NoCall

NextResolve ==
    \/ \E h \in HostArgs, d \in DatabaseArgs : CallGetSessionMaker(h, d)
    \/ \E u \in UseValues : NewContext(u)

SpecResolve == InitScope /\ [][NextResolve]_vars

NextScope ==
    \/ \E u \in UseValues : NewContext(u)
    \/ \E c \in 1..MaxContexts : AEnter(c)
    \/ \E c \in 1..MaxContexts, b \in BodyEnds : AExitBegin(c, b)
    \/ \E c \in 1..MaxContexts, f \in BOOLEAN : AExitClose(c, f)
    \/ \E c \in 1..MaxContexts, r \in BOOLEAN : ACancel(c, r)

SpecScope == InitScope /\ [][NextScope]_vars

----------------------------------------------------------------------------
(* Registrations between the construction of a context and its entries.    *)

\* After m = DatabaseManager(s1), s1 a server on h1, with a second server
\* s2 constructed (on h1 or on h2) and not registered yet.
InitSpare ==
    \E e1 \in FixtureEngines, e2 \in FixtureEngines,
       d1 \in DefaultArgs, d2 \in DefaultArgs, h2 \in Hosts :
       LET r1 == ServerInit(<<>>, <<>>, "h1", e1, d1)
           r2 == ServerInit(r1.servers, r1.engines, h2, e2, d2)
       IN /\ servers = r2.servers
          /\ engines = r2.engines
          /\ manager = ManagerInit(r2.servers, <<1>>)
          /\ contexts = <<>>
          /\ sessions = <<>>
          /\ threads = <<>>
          /\ first_registered = "h1"
          /\ outcome = NoCall

\* The values of `use` of one reference, and none.
SingleUses ==
    {NoUse}
    \cup {ListUse(<<TupleRef(<<h>>)>>) : h \in Hosts}
    \cup {ListUse(<<TupleRef(<<h, d>>)>>) : h \in Hosts, d \in Databases}

NextRegister ==
    \/ \E u \in SingleUses : NewContext(u)
    \/ \E l \in ServerLists : Add(l)
    \/ \E c \in 1..MaxContexts : AEnter(c)
    \/ \E c \in 1..MaxContexts, b \in BodyEnds : AExitBegin(c, b)
    \/ \E c \in 1..MaxContexts, f \in BOOLEAN : AExitClose(c, f)

SpecRegister == InitSpare /\ [][NextRegister]_vars

----------------------------------------------------------------------------
(* get_session_maker called from several threads.  _get_or_create holds no *)
(* lock: between its test of the cache and _create's store into it,       *)
(* another thread may run.                                                 *)

\* A thread calls manager.get(host).get_session_maker(database) and runs up
\* to the test `database not in self.__databases`.
ThreadCall(host, database) ==
    /\ manager.constructed
    /\ Len(threads) < MaxThreads
    /\ LET g == ManagerGet(manager, host) IN
       /\ g.exc = None
       /\ LET s == g.ret
              db == IF ~Truthy(database) THEN servers[s].default_database
                    ELSE database
          IN threads' = Append(threads,
                 IF CacheMiss(servers, s, db)
                 THEN [server |-> s, database |-> db, pc |-> "create",
                       exc |-> None, ret |-> NoPair.session_maker]
                 ELSE [server |-> s, database |-> db, pc |-> "done",
                       exc |-> None,
                       ret |-> servers[s].databases[db].session_maker])
    /\ outcome' = [op |-> "thread", exc |-> None]
    /\ UNCHANGED <<servers, engines, manager, contexts, sessions,
                   first_registered>>

\* The thread runs _create and returns what it created.
ThreadCreate(t) ==
    /\ t \in DOMAIN threads
    /\ threads[t].pc = "create"
    /\ LET r == Create(servers, engines, threads[t].server,
                       threads[t].database)
       IN /\ Len(r.engines) <= MaxEngines
          /\ servers' = r.servers
          /\ engines' = r.engines
          /\ threads' = [threads EXCEPT ![t].pc = "done", ![t].exc = r.exc,
                                        ![t].ret = r.ret.session_maker]
    /\ outcome' = [op |-> "thread", exc |-> None]
    /\ UNCHANGED <<manager, contexts, sessions, first_registered>>

NextThreads ==
    \/ \E h \in HostArgs, d \in DatabaseArgs : ThreadCall(h, d)
    \/ \E t \in 1..MaxThreads : ThreadCreate(t)

SpecThreads == InitScope /\ [][NextThreads]_vars

----------------------------------------------------------------------------
(* The claims *)

\* The (server, database) an engine was created for.
Target(e) == [server |-> engines[e].server, database |-> engines[e].database]

\* The engine the cache of server s holds for database d.
CachedEngine(s, d) == servers[s].databases[d].engine

\* C1: cache identity.  A server never creates a second engine for a
\* database name (at most one engine per server and name, and it is the one
\* in the cache, behind the cached session maker); every session maker that
\* get_session_maker returns through the manager, or that a context holds,
\* is the cached one of the server registered under the host, so two
\* requests for the same (host, database) are backed by the same engine.
C1_CacheIdentity ==
    /\ \A e1, e2 \in DOMAIN engines :
          Target(e1) = Target(e2) => e1 = e2
    /\ \A s \in DOMAIN servers : \A d \in DOMAIN servers[s].databases :
          /\ Target(CachedEngine(s, d)) = [server |-> s, database |-> d]
          /\ servers[s].databases[d].session_maker.bind = CachedEngine(s, d)
    /\ (outcome.op = "get_session_maker" /\ outcome.exc = None) =>
          LET s == outcome.server
              d == IF Truthy(outcome.database) THEN outcome.database
                   ELSE servers[s].default_database
          IN /\ s = manager.database_servers[
                       IF Truthy(outcome.host) THEN outcome.host
                       ELSE manager.default_server]
             /\ d \in DOMAIN servers[s].databases
             /\ outcome.ret.bind = CachedEngine(s, d)
    /\ \A c \in DOMAIN contexts :
          \A i \in DOMAIN contexts[c].session_makers :
             LET m == contexts[c].session_makers[i]
                 t == Target(m.bind)
             IN /\ t.database \in DOMAIN servers[t.server].databases
                /\ CachedEngine(t.server, t.database) = m.bind

\* C1's case: get_session_maker returns the session maker a context already
\* holds: a second request for the same (host, database).
C1_Witness ==
    /\ outcome.op = "get_session_maker"
    /\ outcome.exc = None
    /\ \E c \in DOMAIN contexts : \E i \in DOMAIN contexts[c].session_makers :
          contexts[c].session_makers[i] = outcome.ret

\* The sessions instantiated for context c.
SessionsOf(c) == {id \in DOMAIN sessions : sessions[id].context = c}

\* C2: no partial leak.  When __aenter__ of a context has failed, every
\* session it had instantiated has been closed exactly once.
C2_NoPartialLeak ==
    \A c \in DOMAIN contexts :
       contexts[c].status = "enter_failed" =>
          \A id \in SessionsOf(c) : sessions[id].closes = 1

\* C3: collect-then-raise.  When __aexit__ raises, the close of every
\* session of the context has been attempted.
C3_CollectThenRaise ==
    (outcome.op = "__aexit__" /\ outcome.exc # None) =>
       \A i \in DOMAIN contexts[outcome.context].sessions :
          sessions[contexts[outcome.context].sessions[i]].close_attempts >= 1

\* A session left open: never closed, and not because its own close raised.
LeftOpen(id) == sessions[id].closes = 0 /\ sessions[id].close_attempts = 0

\* C4: release on every exit path.  However the body ended, once __aexit__
\* is over (it returned or raised) no session of the context is left open.
C4_ReleasedOnEveryExitPath ==
    \A c \in DOMAIN contexts :
       (contexts[c].status \in {"exited", "exit_failed"}
           /\ contexts[c].body \in BodyEnds) =>
          \A i \in DOMAIN contexts[c].sessions :
             ~LeftOpen(contexts[c].sessions[i])

\* The release procedure that matches the close contract of the sessions of
\* an engine: close() of an asynchronous session is awaited.
MatchingProcedure(e) ==
    IF engines[e].kind = "AsyncEngine" THEN "await" ELSE "sync_to_async"

\* The targets of context c are of both kinds.
MixedTargets(c) ==
    \E i, j \in DOMAIN contexts[c].session_makers :
       engines[contexts[c].session_makers[i].bind].kind
          # engines[contexts[c].session_makers[j].bind].kind

\* C5: heterogeneous close.  Once the block of a context over synchronous
\* and asynchronous targets is over, each target's session has been closed
\* exactly once, through the procedure that matches its close contract.
C5_HeterogeneousClose ==
    \A c \in DOMAIN contexts :
       (MixedTargets(c)
           /\ contexts[c].status \in {"enter_failed", "exited", "exit_failed"})
       => \A i \in DOMAIN contexts[c].session_makers :
             \E id \in SessionsOf(c) :
                /\ sessions[id].bind = contexts[c].session_makers[i].bind
                /\ sessions[id].closes = 1
                /\ sessions[id].released_by
                      = MatchingProcedure(sessions[id].bind)

\* What the claim has a reference resolve to: a single token names a host,
\* a pair names host and database.
ClaimedTarget(ref) ==
    LET h == ref.elems[1]
        s == manager.database_servers[h]
    IN [server |-> s,
        database |-> IF Len(ref.elems) = 2 THEN ref.elems[2]
                     ELSE servers[s].default_database]

\* What the claim has `use` resolve to.
ClaimedTargets(use) ==
    CASE UseIsFalsy(use) ->
            LET s == manager.database_servers[manager.default_server] IN
            <<[server |-> s, database |-> servers[s].default_database]>>
      [] use.type = "list" ->
            [i \in 1..Len(use.items) |-> ClaimedTarget(use.items[i])]
      [] use.type = "tuple" -> <<ClaimedTarget(TupleRef(use.items))>>
      [] OTHER -> <<ClaimedTarget(StrRef(use.items[1]))>>

\* C6: reference resolution.  The context constructed last holds, in order,
\* the session makers of the targets its references name.
C6_ReferenceResolution ==
    (outcome.op = "db_context" /\ outcome.exc = None) =>
       LET makers == contexts[Len(contexts)].session_makers
           claimed == ClaimedTargets(outcome.use)
       IN /\ Len(makers) = Len(claimed)
          /\ \A i \in DOMAIN makers : Target(makers[i].bind) = claimed[i]

\* C7: concurrent first use.  Threads that asked for the same server and
\* database hold session makers backed by one engine, the one in the cache,
\* and no other engine was created for that server and database.
C7_ConcurrentFirstUse ==
    /\ \A e1, e2 \in DOMAIN engines : Target(e1) = Target(e2) => e1 = e2
    /\ \A t \in DOMAIN threads :
          (threads[t].pc = "done" /\ threads[t].exc = None) =>
             threads[t].ret.bind
                = CachedEngine(threads[t].server, threads[t].database)

\* C8: default server.  Once a server has been registered, the manager has
\* a default server, the first ever registered.
C8_DefaultIsFirstRegistered ==
    first_registered # None => manager.default_server = first_registered

\* The exceptions the claims name; the code raises neither.
NotFoundError == "NotFoundError"
ConfigurationError == "ConfigurationError"

\* C9: lookup.  get returns the server registered under the host, or the
\* default server; it fails with NotFoundError for an unregistered host and,
\* without a host, when there is no default server.
C9_LookupFailure ==
    outcome.op = "get" =>
       IF Truthy(outcome.host)
       THEN IF outcome.host \in DOMAIN manager.database_servers
            THEN /\ outcome.exc = None
                 /\ outcome.ret = manager.database_servers[outcome.host]
            ELSE outcome.exc = NotFoundError
       ELSE IF manager.default_server # Unset
            THEN /\ outcome.exc = None
                 /\ outcome.ret
                       = manager.database_servers[manager.default_server]
            ELSE outcome.exc = NotFoundError

C11_MissingDefaultDatabase ==
    (outcome.op = "get_session_maker" /\ outcome.server # 0
        /\ ~Truthy(outcome.database))
    => LET s == outcome.server
           d == servers[s].default_database
       IN IF Truthy(d)
          THEN /\ outcome.exc = None
               /\ d \in DOMAIN servers[s].databases
               /\ outcome.ret.bind = CachedEngine(s, d)
          ELSE /\ outcome.exc = ConfigurationError
               /\ d \notin DOMAIN servers[s].databases

\* C12: result shape of entry.  When __aenter__ of a context built from N
\* references returns, the context holds N sessions, the i-th one of the
\* target the i-th reference names, and the caller has received the session
\* itself when N = 1 and the sequence of the N sessions otherwise.  (No
\* reference stands for the one default target.)
C12_ResultShape ==
    (outcome.op = "__aenter__" /\ outcome.exc = None) =>
       LET ctx == contexts[outcome.context]
           claimed == ClaimedTargets(ctx.use)
           N == Len(claimed)
       IN /\ Len(ctx.sessions) = N
          /\ \A i \in DOMAIN ctx.sessions :
                i <= N => Target(sessions[ctx.sessions[i]].bind) = claimed[i]
          /\ outcome.ret = IF N = 1
                           THEN [single |-> TRUE, sessions |-> ctx.sessions]
                           ELSE [single |-> FALSE, sessions |-> ctx.sessions]

\* The number of times the close of the i-th session of a context was
\* started.
Attempts(ctx, i) == sessions[ctx.sessions[i]].close_attempts

\* C13: open/close ordering.  The sessions of a context were opened in the
\* order of its references (the i-th session is of the i-th session maker
\* and was instantiated before the (i+1)-th); they are closed in that order
\* (the close of a session has never been started more often than that of
\* the session before it); one at a time (while a close is awaited, the
\* closes before it are over and no close after it has been started in
\* this exit); and no close is started before every session is open.
C13_OpenCloseOrder ==
    \A c \in DOMAIN contexts :
       LET ctx == contexts[c] IN
       /\ \A i \in DOMAIN ctx.sessions :
             /\ i \in DOMAIN ctx.session_makers
             /\ sessions[ctx.sessions[i]].bind = ctx.session_makers[i].bind
             /\ sessions[ctx.sessions[i]].context = c
       /\ \A i, j \in DOMAIN ctx.sessions :
             i < j => /\ ctx.sessions[i] < ctx.sessions[j]
                      /\ Attempts(ctx, i) >= Attempts(ctx, j)
       /\ ctx.closing > 0 =>
             /\ Len(ctx.sessions) = Len(ctx.session_makers)
             /\ ctx.closing \in DOMAIN ctx.sessions
             /\ \A i, j \in DOMAIN ctx.sessions :
                   (i < ctx.closing /\ ctx.closing <= j) =>
                      Attempts(ctx, i) > Attempts(ctx, j)

\* C13's case: a context with more than one session has closed the first
\* and is awaiting the close of the second.
C13_Witness ==
    \E c \in DOMAIN contexts :
       /\ Len(contexts[c].sessions) = 2
       /\ contexts[c].closing = 2
       /\ sessions[contexts[c].sessions[1]].closes = 1
       /\ sessions[contexts[c].sessions[2]].close_attempts = 0

\* A step of __aenter__ or __aexit__ (or the cancellation of __aexit__).
ScopeStep ==
    outcome'.op \in {"__aenter__", "__aexit__", "body", "close", "cancel"}

\* C16: sessions never touch the cache.  Entry and exit of a context, the
\* closes included, leave every server's cache and every engine as they
\* were; no step removes a database name from a cache or changes the
\* session maker a cache holds for a name.
C16_SessionsNeverTouchCache ==
    [][/\ ScopeStep => UNCHANGED <<servers, engines>>
       /\ \A s \in DOMAIN servers :
             /\ s \in DOMAIN servers'
             /\ \A d \in DOMAIN servers[s].databases :
                   /\ d \in DOMAIN servers'[s].databases
                   /\ servers'[s].databases[d] = servers[s].databases[d]]_vars

\* C16's case: __aexit__ has closed a session, and the session maker it
\* came from is still the one in the cache.
C16_Witness ==
    /\ outcome.op = "__aexit__"
    /\ outcome.exc = None
    /\ \E id \in SessionsOf(outcome.context) :
          /\ sessions[id].closes = 1
          /\ LET t == Target(sessions[id].bind) IN
             /\ t.database \in DOMAIN servers[t.server].databases
             /\ CachedEngine(t.server, t.database) = sessions[id].bind

\* C17: cleanup is not cancellable.  When the task is cancelled while
\* __aexit__ is suspended in a close, the close of every session of the
\* context has been attempted by the time the cancellation leaves __aexit__.
C17_CleanupNotCancellable ==
    outcome.op = "cancel" =>
       \A i \in DOMAIN contexts[outcome.context].sessions :
          Attempts(contexts[outcome.context], i) >= 1

\* The lifecycle of the claim, in the states a context is seen in between
\* calls: created, entered (open), exiting (closing), and closed: after an
\* entry that failed, and after an exit that returned, raised or was
\* cancelled.
Lifecycle ==
    {<<"created", "entered">>, <<"created", "enter_failed">>,
     <<"entered", "exiting">>, <<"exiting", "exited">>,
     <<"exiting", "exit_failed">>, <<"exiting", "cancelled">>}

\* C18: scope state machine.  Whatever calls are made on a context, its
\* state only moves along the lifecycle; in particular a context that was
\* closed is never open again.
C18_ScopeStateMachine ==
    [][\A c \in DOMAIN contexts :
          \/ contexts'[c].status = contexts[c].status
          \/ <<contexts[c].status, contexts'[c].status>> \in Lifecycle]_vars

\* C20: exit never suppresses, and is a no-op on an unentered context.  When
\* __aexit__ returns it has closed every session of the context and an
\* exception of the body still propagates to the caller; on a context whose
\* sessions were never instantiated it has closed nothing and does not
\* raise.
C20_ExitNeverSuppresses ==
    outcome.op = "__aexit__" =>
       LET ctx == contexts[outcome.context] IN
       /\ outcome.exc = None =>
             /\ outcome.body = "raise" =>
                   BodyExceptionPropagates(outcome.body, outcome.ret)
             /\ \A i \in DOMAIN ctx.sessions :
                   sessions[ctx.sessions[i]].closes >= 1
       /\ ctx.sessions_is_none =>
             /\ outcome.exc = None
             /\ \A id \in SessionsOf(outcome.context) :
                   sessions[id].close_attempts = 0

\* C20's case: the body of an entered context has raised, and __aexit__ has
\* closed its sessions and returned.
C20_Witness ==
    /\ outcome.op = "__aexit__"
    /\ outcome.exc = None
    /\ outcome.body = "raise"
    /\ contexts[outcome.context].sessions # <<>>
    /\ \A i \in DOMAIN contexts[outcome.context].sessions :
          sessions[contexts[outcome.context].sessions[i]].closes = 1

\* C20's other case: __aexit__ has run on a context that was never entered.
C20_UnenteredExit ==
    /\ outcome.op = "__aexit__"
    /\ contexts[outcome.context].sessions_is_none

\* C14: resolution happens once.  The session makers of a context are
\* those its construction resolved: no later call changes them, add that
\* replaces the server of a host included, and every entry instantiates
\* the sessions of the context from them, in order.
C14_ResolutionOnce ==
    /\ [](\A c \in DOMAIN contexts :
            /\ contexts[c].sessions_is_none
               \/ Len(contexts[c].sessions) = Len(contexts[c].session_makers)
            /\ \A i \in DOMAIN contexts[c].sessions :
                  sessions[contexts[c].sessions[i]].bind
                     = contexts[c].session_makers[i].bind)
    /\ [][\A c \in DOMAIN contexts :
             contexts'[c].session_makers = contexts[c].session_makers]_vars

\* C14's case: a context was constructed on a server of h1, add has since
\* registered another server under h1, and the context has been entered
\* after that: its session is of the server its construction resolved.
C14_Witness ==
    /\ outcome.op = "__aenter__"
    /\ outcome.exc = None
    /\ manager.database_servers["h1"] = 2
    /\ \E i \in DOMAIN contexts[outcome.context].sessions :
          engines[sessions[contexts[outcome.context].sessions[i]].bind].server
             = 1

\* The hosts of the servers in an argument list.
HostsOf(db_servers) ==
    {servers[db_servers[i]].host : i \in DOMAIN db_servers}

\* C15: re-registration replaces.  After add, each host among the arguments
\* is registered to the last argument that has it and get(host) returns
\* that server; a server that was replaced is no longer registered under
\* any host; the other hosts keep their servers; no host is registered
\* twice (the hosts after are those before and those of the arguments, so
\* re-registering leaves their number unchanged); the default host is the
\* one before.
C15_ReRegistrationReplaces ==
    outcome.op = "add" =>
       LET l == outcome.db_servers
           before == outcome.before.database_servers
           after == manager.database_servers
       IN /\ DOMAIN after = DOMAIN before \cup HostsOf(l)
          /\ HostsOf(l) \subseteq DOMAIN before =>
                Cardinality(DOMAIN after) = Cardinality(DOMAIN before)
          /\ \A h \in DOMAIN before \ HostsOf(l) : after[h] = before[h]
          /\ \A i \in DOMAIN l :
                (\A j \in DOMAIN l :
                    j > i => servers[l[j]].host # servers[l[i]].host)
                => /\ after[servers[l[i]].host] = l[i]
                   /\ ManagerGet(manager, servers[l[i]].host)
                         = [exc |-> None, ret |-> l[i]]
          /\ \A h \in DOMAIN before :
                before[h] # after[h] =>
                   \A k \in DOMAIN after : after[k] # before[h]
          /\ manager.default_server = outcome.before.default_server

\* C15's case: add has replaced the server of a registered host.
C15_Witness ==
    /\ outcome.op = "add"
    /\ \E h \in DOMAIN outcome.before.database_servers :
          outcome.before.database_servers[h] # manager.database_servers[h]

\* The (server, database) targets a call refers to: the one of
\* get_session_maker, those of the references of db_context.
ReferencedBy(call) ==
    LET target(host, database) ==
            LET g == ManagerGet(manager, host) IN
            IF g.exc # None THEN {}
            ELSE {[server |-> g.ret,
                   database |-> IF Truthy(database) THEN database
                                ELSE servers[g.ret].default_database]}
    IN CASE call.op = "get_session_maker" -> target(call.host, call.database)
         [] call.op = "db_context" ->
               IF UseIsFalsy(call.use) THEN target(None, None)
               ELSE UNION {LET t == ResolveRef(Iterate(call.use)[i]) IN
                           IF t.exc # None THEN {}
                           ELSE target(t.host, t.database) :
                           i \in DOMAIN Iterate(call.use)}
         [] OTHER -> {}

====
